---- MODULE Spec2Model ----
(***************************************************************************)
(* Round orchestration of the D&D bot: GameEngine.process_round and the   *)
(* sweeper (bot/game/engine.py), the store operations they use            *)
(* (bot/game/state.py), the DM commands that change a game's status       *)
(* (bot/commands/admin.py) and the player's action command                *)
(* (bot/commands/player.py).                                               *)
(*                                                                         *)
(* The program is a single asyncio event loop: a coroutine runs without   *)
(* interruption from one await that suspends to the next.  Every action   *)
(* below is therefore one such uninterrupted stretch of a handler.  The   *)
(* await that suspends a round is the narrator call (engine.py:109).      *)
(***************************************************************************)
EXTENDS Integers, Sequences, FiniteSets, TLC

\* ------------------------------------------------------------------ bounds
MaxActions == 2
MaxRound == 3
MaxTime == 300
StatSpread == 1
MaxHpChange == 36

\* ------------------------------------------------------- program constants
ROUND_TIMEOUT_SECONDS == 300
MIN_PLAYERS_FOR_ROUND == 1
DEFAULT_HP == 20
STAT_POINT_BUY_MAX == 27
STAT_MAX == 15
STAT_MIN == 8

OneGame == {1}
Players == {1, 2}
\* A platform user who has created no character: an id that is no row of
\* the players table.
NoCharacter == Cardinality(Players) + 1
ActionTexts == {"attacks"}
Calls == {"sweeper", "manual"}

PlayerName(p) == IF p = 1 THEN "Thorne" ELSE "Mira"

\* Python values of type Optional[str], and a raised exception.
None == [kind |-> "none", text |-> <<>>]
Str(s) == [kind |-> "text", text |-> s]
Raised == [kind |-> "raise", text |-> <<>>]
Truthy(v) == v.kind = "text" /\ v.text # <<>>

NoSession == [exists |-> FALSE, round_number |-> 0, current_turn |-> 0]
NoSnap == [round_number |-> 0, pending |-> <<>>, player_actions |-> <<>>,
           action_ids |-> <<>>]

VARIABLES
    status,         \* Game.status per game id; "none": no such row
    channel,        \* Game.channel_id
    session,        \* GameSession row of the game
    roster,         \* GamePlayer rows: the players of the game
    actions,        \* Action rows; the id is the index
    logs,           \* GameLog rows per game, in insertion order
    active_rounds,  \* GameEngine.active_rounds (its keys)
    ai_callback,    \* whether GameEngine.ai_callback is set
    now,            \* datetime.utcnow(), in seconds
    pc,             \* each process_round caller: "idle", or "await" (narrator)
    cgame,          \* game_id of the suspended call
    csnap,          \* game_state, player_actions, action_ids of the suspended call
    spc,            \* the sweeper loop: "sleep", "sweep" or "stopped"
    squeue,         \* active_games still to visit in this sweep
    last,           \* what the process_round step just taken did and returned
    markCount,      \* history: how often each action was marked processed
    min_players,    \* settings.MIN_PLAYERS_FOR_ROUND as read from the environment
    probe           \* the call of a validator just made: arguments and result

store == <<status, channel, session, roster, actions, logs>>
callv == <<pc, cgame, csnap>>
vars == <<status, channel, session, roster, actions, logs,
          active_rounds, ai_callback, now, pc, cgame, csnap,
          spc, squeue, last, markCount, min_players, probe>>

\* The game ids and channels of the deployment: one row slot per game.
GameIds == DOMAIN status
ChannelOf(g) == IF g = 1 THEN "ch1" ELSE "ch2"
Channels == {ChannelOf(g) : g \in GameIds}

\* The record of a process_round step: the caller, the game, the exit path
\* (why), the value returned (ret), what the narrator did and which store
\* write failed in it, and the snapshot the call worked on.  Any other step
\* leaves NoEvent.
NoEvent == [call |-> "none", game |-> 0, why |-> "none", ret |-> None,
            narr |-> "none", fail |-> "none", snap |-> NoSnap]
Event(c, g, reason, r, narr, fail, snap) ==
    [call |-> c, game |-> g, why |-> reason, ret |-> r, narr |-> narr,
     fail |-> fail, snap |-> snap]

\* No validator has been called.
NoProbe == [fn |-> "none"]

\* ------------------------------------------------------------ store reads

ActionIds == 1..Len(actions)

\* The order of the query reversed: newest first.
RECURSIVE InsertByTimestampDescending(_, _)
InsertByTimestampDescending(s, a) ==
    IF s = <<>> THEN <<a>>
    ELSE IF actions[Head(s)].timestamp >= actions[a].timestamp
         THEN <<Head(s)>> \o InsertByTimestampDescending(Tail(s), a)
         ELSE <<a>> \o s

RECURSIVE InsertByTimestamp(_, _)
InsertByTimestamp(s, a) ==
    IF s = <<>> THEN <<a>>
    ELSE IF actions[Head(s)].timestamp <= actions[a].timestamp
         THEN <<Head(s)>> \o InsertByTimestamp(Tail(s), a)
         ELSE <<a>> \o s

RECURSIVE OrderByTimestamp(_, _)
OrderByTimestamp(ids, n) ==
    IF n = 0 THEN <<>>
    ELSE IF n \in ids THEN InsertByTimestamp(OrderByTimestamp(ids, n - 1), n)
         ELSE OrderByTimestamp(ids, n - 1)

\* PendingActions without its filter on the processed flag.
PendingActionsAll(g) ==
    OrderByTimestamp({a \in ActionIds : actions[a].game_id = g}, Len(actions))

\* state.py:50-53: the unprocessed actions of the game, oldest first.
PendingActions(g) ==
    OrderByTimestamp({a \in ActionIds : actions[a].game_id = g
                                        /\ ~actions[a].processed},
                     Len(actions))

\* The query that builds a session whether or not the game has one.
SessionOfFresh(g) == [exists |-> TRUE, round_number |-> 1, current_turn |-> 0]

\* The session get_game_state returns: the row, or the one it creates.
SessionOf(g) ==
    IF session[g].exists THEN session[g]
    ELSE [exists |-> TRUE, round_number |-> 1, current_turn |-> 0]

GetGameState(g) ==
    [status |-> IF g \in GameIds /\ status[g] # "none" THEN status[g] ELSE "none",
     round_number |-> IF g \in GameIds THEN SessionOf(g).round_number ELSE 0,
     players |-> IF g \in GameIds THEN roster[g] ELSE {},
     pending_actions |-> IF g \in GameIds THEN PendingActions(g) ELSE <<>>]

GetAllActiveGames == {g \in GameIds : status[g] = "active"}

RECURSIVE Ascending(_)
Ascending(S) ==
    IF S = {} THEN <<>>
    ELSE LET m == CHOOSE x \in S : \A y \in S : x <= y
         IN <<m>> \o Ascending(S \ {m})

\* -------------------------------------------------------------- scheduler

Min(S) == CHOOSE x \in S : \A y \in S : x <= y
SeqRange(s) == {s[i] : i \in 1..Len(s)}

\* The quorum test with > for >=.
ShouldProcessRoundQuorumStrict(players, pending, force, t) ==
    IF force THEN TRUE
    ELSE IF pending = <<>> THEN FALSE
    ELSE IF Len(pending) >= min_players
         THEN \/ Cardinality({actions[a].player_id : a \in SeqRange(pending)})
                    > Cardinality(players)
              \/ t - Min({actions[a].timestamp : a \in SeqRange(pending)})
                    >= ROUND_TIMEOUT_SECONDS
         ELSE FALSE

\* The quorum counted against the roster as it was when the oldest pending
\* action was stored: the players who had acted in the game by then.
ShouldProcessRoundRosterAtSubmission(players, pending, force, t) ==
    IF force THEN TRUE
    ELSE IF pending = <<>> THEN FALSE
    ELSE IF Len(pending) >= min_players
         THEN \/ Cardinality({actions[a].player_id : a \in SeqRange(pending)})
                    >= Cardinality({actions[a].player_id :
                          a \in {b \in 1..Len(actions) :
                                    /\ b <= Min(SeqRange(pending))
                                    /\ actions[b].game_id =
                                          actions[Min(SeqRange(pending))].game_id}})
              \/ t - Min({actions[a].timestamp : a \in SeqRange(pending)})
                    >= ROUND_TIMEOUT_SECONDS
         ELSE FALSE

\* engine.py:149-189
ShouldProcessRound(players, pending, force, t) ==
    IF force THEN TRUE
    ELSE IF pending = <<>> THEN FALSE
    ELSE IF Len(pending) >= min_players
         THEN \/ Cardinality({actions[a].player_id : a \in SeqRange(pending)})
                    >= Cardinality(players)
              \/ t - Min({actions[a].timestamp : a \in SeqRange(pending)})
                    >= ROUND_TIMEOUT_SECONDS
         ELSE FALSE

\* -------------------------------------------------------------- narration

\* engine.py:80-102, action_ids: the pending actions whose player is found,
\* in the snapshot's roster or, failing that, in the players table; an action
\* whose player_id is no row of the table is logged and left out.  Players
\* are the rows of the table.
AttributedIds(pending) ==
    SelectSeq(pending, LAMBDA a : actions[a].player_id \in Players)

\* engine.py:80-102, player_actions: one pair for each of these actions.
PlayerActions(pending) ==
    [i \in 1..Len(AttributedIds(pending)) |->
        [player_name |-> PlayerName(actions[AttributedIds(pending)[i]].player_id),
         action_text |-> actions[AttributedIds(pending)[i]].action_text]]

RECURSIVE JoinComma(_)
JoinComma(s) ==
    IF s = <<>> THEN <<>>
    ELSE IF Len(s) = 1 THEN <<Head(s)>>
    ELSE <<Head(s), ", ">> \o JoinComma(Tail(s))

\* f"*The actions unfold: {', '.join(action_text ...)}*"
UnfoldFallback(pa) ==
    <<"*The actions unfold: ">>
        \o JoinComma([i \in 1..Len(pa) |-> pa[i].action_text]) \o <<"*">>

\* OllamaClient._fallback_narrative
ClientFallback(pa) ==
    IF pa = <<>> THEN <<"*The party waits, watching the world around them...*">>
    ELSE <<"*The party acts: ">>
            \o JoinComma([i \in 1..Len(pa) |->
                            pa[i].player_name \o " " \o pa[i].action_text])
            \o <<". The world responds...*">>


\* What the narrator callback returned, for every outcome but an exception.
\* "text" is any non-empty text: the engine does not look at its length.
\* "client_fallback": generate_story met a non-200 answer, a connection
\* failure or its timeout and returned its own fallback text.
NarratorResult(outcome, pa) ==
    CASE outcome = "text" -> Str(<<"The goblin falls under the blows.">>)
      [] outcome = "empty" -> Str(<<>>)
      [] outcome = "none" -> None
      [] outcome = "client_fallback" -> Str(ClientFallback(pa))

NarratorOutcomes == {"text", "empty", "none", "client_fallback", "raise"}

\* The except branch without its fallback.
NarrativeOnRaiseNone(pa) == None

\* engine.py:114-116, the except branch around the callback
NarrativeOnRaise(pa) == Str(UnfoldFallback(pa))

\* engine.py:110-113: a falsy result is logged and kept as it is
NarrativeOnReturn(v) == v

\* engine.py:117-119, no callback configured
NarrativeNoCallback(pa) == Str(UnfoldFallback(pa))

Narrative(outcome, pa) ==
    IF outcome = "raise" THEN NarrativeOnRaise(pa)
    ELSE NarrativeOnReturn(NarratorResult(outcome, pa))

\* ------------------------------------------------------------ the token

\* The membership test left out.
AlreadyProcessingNever(g) == FALSE

\* One token for all games.
AlreadyProcessingAny(g) == active_rounds # {}

\* engine.py:45
AlreadyProcessing(g) == g \in active_rounds

\* engine.py:49
AcquireToken(ar, g) == ar \cup {g}

\* The finally clause left out.
ReleaseTokenNot(ar, g) == ar

\* engine.py:147, the finally clause
ReleaseToken(ar, g) == ar \ {g}

\* ------------------------------------------------------------ the commit

\* The update without its filter on the ids: every action of the game.
MarkActionsProcessedAll(acts, g, ids) ==
    [a \in DOMAIN acts |->
        IF acts[a].game_id = g
        THEN [acts[a] EXCEPT !.processed = TRUE]
        ELSE acts[a]]

\* state.py:163-169
MarkActionsProcessed(acts, g, ids) ==
    [a \in DOMAIN acts |->
        IF acts[a].game_id = g /\ a \in SeqRange(ids)
        THEN [acts[a] EXCEPT !.processed = TRUE]
        ELSE acts[a]]

\* The increment by two.
NextRoundNumberSkips(n) == n + 2

\* engine.py:128
NextRoundNumber(n) == n + 1

\* The log row numbered after the increment: the round that begins.
RoundLogEntryNextRound(snap, narrative) ==
    [type |-> "narrative", round |-> snap.round_number + 1, text |-> narrative.text]

\* engine.py:134-139
RoundLogEntry(snap, narrative) ==
    [type |-> "narrative", round |-> snap.round_number, text |-> narrative.text]

\* The store writes of a commit are three transactions (engine.py:123, 131,
\* 135).  One that fails raises and leaves the earlier ones durable.
FailPoints(ids, narrative) ==
    {"none", "session"}
        \cup (IF ids # <<>> THEN {"mark"} ELSE {})
        \cup (IF Truthy(narrative) THEN {"log"} ELSE {})

\* engine.py:53 with state.py:34-38: the session row is created if absent
LoadSession(g) ==
    IF status[g] # "none" THEN [session EXCEPT ![g] = SessionOf(g)] ELSE session

\* engine.py:121-145: the writes and the return value.
Commit(c, g, snap, narrative, narr, fail) ==
    LET marked == snap.action_ids # <<>> /\ fail # "mark"
        advanced == fail \notin {"mark", "session"}
        logged == fail = "none" /\ Truthy(narrative)
    IN  /\ actions' = IF marked
                      THEN MarkActionsProcessed(actions, g, snap.action_ids)
                      ELSE actions
        /\ markCount' = [a \in DOMAIN markCount |->
                            IF marked /\ a \in SeqRange(snap.action_ids)
                            THEN markCount[a] + 1 ELSE markCount[a]]
        /\ session' = IF advanced
                      THEN [LoadSession(g) EXCEPT
                              ![g].round_number = NextRoundNumber(@),
                              ![g].current_turn = 0]
                      ELSE LoadSession(g)
        /\ logs' = IF logged
                   THEN [logs EXCEPT ![g] = Append(@, RoundLogEntry(snap, narrative))]
                   ELSE logs
        /\ last' = IF fail = "none"
                   THEN Event(c, g, "committed", narrative, narr, fail, snap)
                   ELSE Event(c, g, "error", None, narr, fail, snap)

\* The early return that leaves a row in the game's log.
ExitLogged(c, g, reason) ==
    /\ last' = Event(c, g, reason, None, "none", "none", NoSnap)
    /\ logs' = [logs EXCEPT ![g] = Append(@, [type |-> "system", round |-> 0, text |-> <<reason>>])]
    /\ UNCHANGED <<actions, markCount>>

\* A return of process_round before anything but the session row is written.
Exit(c, g, reason) ==
    /\ last' = Event(c, g, reason, None, "none", "none", NoSnap)
    /\ UNCHANGED <<actions, markCount, logs>>

\* The busy return placed inside the try block: its finally clause pops the
\* token of the call in flight.
ProcessRoundBusyReleases(c, g) ==
    /\ Exit(c, g, "busy")
    /\ active_rounds' = ReleaseToken(active_rounds, g)
    /\ UNCHANGED <<session, callv>>

\* engine.py:45-47: the token is held by another call
ProcessRoundBusy(c, g) ==
    /\ Exit(c, g, "busy")
    /\ UNCHANGED <<session, active_rounds, callv>>

\* engine.py:49-109: from the acquisition to the narrator call, or to the
\* return when the narrator is not called.
ProcessRoundRun(c, g, force) ==
    LET gs == GetGameState(g)
        pending == gs.pending_actions
        pa == PlayerActions(pending)
        snap == [round_number |-> gs.round_number, pending |-> pending,
                 player_actions |-> pa,
                 action_ids |-> AttributedIds(pending)]
        held == AcquireToken(active_rounds, g)
    IN  \/ /\ gs.status # "active"
           /\ Exit(c, g, "not_active")
           /\ session' = LoadSession(g)
           /\ active_rounds' = ReleaseToken(held, g)
           /\ UNCHANGED callv
        \/ /\ gs.status = "active"
           /\ pending = <<>> /\ ~force
           /\ Exit(c, g, "no_pending")
           /\ session' = LoadSession(g)
           /\ active_rounds' = ReleaseToken(held, g)
           /\ UNCHANGED callv
        \/ /\ gs.status = "active"
           /\ ~(pending = <<>> /\ ~force)
           /\ ~ShouldProcessRound(gs.players, pending, force, now)
           /\ Exit(c, g, "declined")
           /\ session' = LoadSession(g)
           /\ active_rounds' = ReleaseToken(held, g)
           /\ UNCHANGED callv
        \/ /\ gs.status = "active"
           /\ ~(pending = <<>> /\ ~force)
           /\ ShouldProcessRound(gs.players, pending, force, now)
           /\ pa # <<>> /\ ai_callback
           /\ pc' = [pc EXCEPT ![c] = "await"]
           /\ cgame' = [cgame EXCEPT ![c] = g]
           /\ csnap' = [csnap EXCEPT ![c] = snap]
           /\ session' = LoadSession(g)
           /\ active_rounds' = held
           /\ last' = Event(c, g, "await", None, "none", "none", snap)
           /\ UNCHANGED <<actions, markCount, logs>>
        \/ /\ gs.status = "active"
           /\ ~(pending = <<>> /\ ~force)
           /\ ShouldProcessRound(gs.players, pending, force, now)
           /\ ~(pa # <<>> /\ ai_callback)
           /\ LET narrative == IF pa # <<>> THEN NarrativeNoCallback(pa) ELSE None
              IN \E fail \in FailPoints(snap.action_ids, narrative) :
                    Commit(c, g, snap, narrative, "none", fail)
           /\ active_rounds' = ReleaseToken(held, g)
           /\ UNCHANGED callv

\* engine.py:53 raising: a store read that fails is caught at line 143
ProcessRoundLoadFails(c, g) ==
    /\ last' = Event(c, g, "error", None, "none", "load", NoSnap)
    /\ active_rounds' = ReleaseToken(AcquireToken(active_rounds, g), g)
    /\ UNCHANGED <<actions, markCount, logs, session, callv>>

\* GameEngine.process_round up to its first suspension
ProcessRound(c, g, force) ==
    /\ pc[c] = "idle"
    /\ session[g].round_number < MaxRound
    /\ IF AlreadyProcessing(g)
       THEN ProcessRoundBusy(c, g)
       ELSE ProcessRoundRun(c, g, force) \/ ProcessRoundLoadFails(c, g)
    /\ UNCHANGED <<status, channel, roster, ai_callback, min_players, probe, now>>

\* The loop over the games without its try: a call that failed ends the sweep.
SweeperAdvancesAborts ==
    /\ squeue' = IF last'.why = "error" THEN <<>> ELSE Tail(squeue)
    /\ spc' = IF squeue' = <<>> THEN "sleep" ELSE "sweep"

\* The sweeper after a call of its loop ends (engine.py:217-221): on to the
\* next game, and back to sleep after the last (engine.py:232-235).
SweeperAdvances ==
    /\ squeue' = Tail(squeue)
    /\ spc' = IF Tail(squeue) = <<>> THEN "sleep" ELSE "sweep"

AfterCall(c) ==
    IF c = "sweeper" /\ pc'[c] = "idle" THEN SweeperAdvances
    ELSE UNCHANGED <<spc, squeue>>

\* engine.py:109-147: the narrator call ends and the round is committed
NarratorReturns(c) ==
    /\ pc[c] = "await"
    /\ \E outcome \in NarratorOutcomes :
         LET narrative == Narrative(outcome, csnap[c].player_actions)
         IN \E fail \in FailPoints(csnap[c].action_ids, narrative) :
                  Commit(c, cgame[c], csnap[c], narrative, outcome, fail)
    /\ active_rounds' = ReleaseToken(active_rounds, cgame[c])
    /\ pc' = [pc EXCEPT ![c] = "idle"]
    /\ cgame' = [cgame EXCEPT ![c] = 0]
    /\ csnap' = [csnap EXCEPT ![c] = NoSnap]
    /\ AfterCall(c)
    /\ UNCHANGED <<status, channel, roster, ai_callback, min_players, probe, now>>

\* The cancellation taken for a failure of the narrator: the except clause
\* of process_round (engine.py:114) catches it and the round goes on.
NarratorCancelledSwallowed(c) ==
    /\ pc[c] = "await"
    /\ LET narrative == NarrativeOnRaise(csnap[c].player_actions)
       IN \E fail \in FailPoints(csnap[c].action_ids, narrative) :
             Commit(c, cgame[c], csnap[c], narrative, "cancelled", fail)
    /\ active_rounds' = ReleaseToken(active_rounds, cgame[c])
    /\ pc' = [pc EXCEPT ![c] = "idle"]
    /\ cgame' = [cgame EXCEPT ![c] = 0]
    /\ csnap' = [csnap EXCEPT ![c] = NoSnap]
    /\ AfterCall(c)
    /\ UNCHANGED <<status, channel, roster, ai_callback, min_players, probe, now>>

\* The task is cancelled while it waits for the narrator: CancelledError is
\* no Exception, so only the finally clause runs (engine.py:146-147) and the
\* error leaves process_round; it ends the sweeper task, whose except clauses
\* (engine.py:220, 236) do not catch it either.
NarratorCancelled(c) ==
    /\ pc[c] = "await"
    /\ last' = Event(c, cgame[c], "cancelled", Raised, "cancelled", "none", csnap[c])
    /\ active_rounds' = ReleaseToken(active_rounds, cgame[c])
    /\ pc' = [pc EXCEPT ![c] = "idle"]
    /\ cgame' = [cgame EXCEPT ![c] = 0]
    /\ csnap' = [csnap EXCEPT ![c] = NoSnap]
    /\ IF c = "sweeper" THEN spc' = "stopped" /\ squeue' = <<>>
       ELSE UNCHANGED <<spc, squeue>>
    /\ UNCHANGED <<store, ai_callback, min_players, probe, now, markCount>>

\* ------------------------------------------------------------ the sweeper

\* engine.py:234-235 with 215: the sleep ends and the active games are listed
SweepStart ==
    /\ spc = "sleep"
    /\ GetAllActiveGames # {}
    /\ squeue' = Ascending(GetAllActiveGames)
    /\ spc' = "sweep"
    /\ last' = NoEvent
    /\ UNCHANGED <<store, active_rounds, ai_callback, min_players, probe, now, callv, markCount>>

\* engine.py:234-235 with 215: the sleep ends and no game is active; the loop
\* goes back to sleep.
SweepEmpty ==
    /\ spc = "sleep"
    /\ GetAllActiveGames = {}
    /\ last' = [NoEvent EXCEPT !.call = "sweeper", !.why = "sweep_empty"]
    /\ UNCHANGED <<store, active_rounds, ai_callback, min_players, probe, now,
                   callv, spc, squeue, markCount>>

\* The except clause left out: the exception ends the task.
SweepListFailsStops ==
    /\ spc = "sleep"
    /\ spc' = "stopped"
    /\ last' = [NoEvent EXCEPT !.call = "sweeper", !.why = "sweep_failed"]
    /\ UNCHANGED <<store, active_rounds, ai_callback, min_players, probe, now,
                   callv, squeue, markCount>>

\* engine.py:215 raising: the list of active games cannot be read, the
\* exception leaves process_all_active_games and is caught at engine.py:236;
\* the loop sleeps 5 seconds.
SweepListFails ==
    /\ spc = "sleep"
    /\ spc' = "cooldown"
    /\ last' = [NoEvent EXCEPT !.call = "sweeper", !.why = "sweep_failed"]
    /\ UNCHANGED <<store, active_rounds, ai_callback, min_players, probe, now,
                   callv, squeue, markCount>>

\* engine.py:238: the cooldown ends and the loop sleeps its interval again
CooldownEnds ==
    /\ spc = "cooldown"
    /\ spc' = "sleep"
    /\ last' = NoEvent
    /\ UNCHANGED <<store, active_rounds, ai_callback, min_players, probe, now,
                   callv, squeue, markCount>>

\* engine.py:219: process_round(game.id), never forced
SweeperCalls ==
    /\ spc = "sweep"
    /\ squeue # <<>>
    /\ ProcessRound("sweeper", Head(squeue), FALSE)
    /\ AfterCall("sweeper")

\* A caller other than the sweeper, with either value of force
ManualCalls ==
    /\ \E g \in GameIds, force \in BOOLEAN : ProcessRound("manual", g, force)
    /\ UNCHANGED <<spc, squeue>>

\* ---------------------------------------------------------- admin commands

NonTerminal == {"waiting", "active", "paused"}

GamesIn(ch, sts) == {g \in GameIds : channel[g] = ch /\ status[g] \in sts}

NextGameId == Cardinality({g \in GameIds : status[g] # "none"}) + 1

SystemLog(text) == [type |-> "system", round |-> 0, text |-> <<text>>]
OpeningLog == [type |-> "narrative", round |-> 0, text |-> <<"opening scene">>]

\* The start command without its look for a game already in the channel.
HandleDmStartUnchecked(ch) ==
    /\ NextGameId \in GameIds
    /\ LET g == NextGameId
       IN /\ status' = [status EXCEPT ![g] = "active"]
          /\ channel' = [channel EXCEPT ![g] = ch]
          /\ session' = [session EXCEPT ![g] =
                            [exists |-> TRUE, round_number |-> 1, current_turn |-> 0]]
          /\ logs' = [logs EXCEPT ![g] =
                        @ \o <<SystemLog("Game started by DM"), OpeningLog>>]
    /\ last' = NoEvent
    /\ UNCHANGED <<roster, actions, active_rounds, ai_callback, min_players, probe, now, callv,
                   spc, squeue, markCount>>

\* admin.py:24-103.  The opening narrative is awaited between the two log
\* rows; nothing a round reads or writes depends on where the second row
\* falls, so both are written here.
HandleDmStart(ch) ==
    /\ GamesIn(ch, NonTerminal) = {}
    /\ NextGameId \in GameIds
    /\ LET g == NextGameId
       IN /\ status' = [status EXCEPT ![g] = "active"]
          /\ channel' = [channel EXCEPT ![g] = ch]
          /\ session' = [session EXCEPT ![g] =
                            [exists |-> TRUE, round_number |-> 1, current_turn |-> 0]]
          /\ logs' = [logs EXCEPT ![g] =
                        @ \o <<SystemLog("Game started by DM"), OpeningLog>>]
    /\ last' = NoEvent
    /\ UNCHANGED <<roster, actions, active_rounds, ai_callback, min_players, probe, now, callv,
                   spc, squeue, markCount>>

\* admin.py:105-121
HandleDmPause(ch) ==
    /\ GamesIn(ch, {"active"}) # {}
    /\ LET g == Min(GamesIn(ch, {"active"}))
       IN status' = [status EXCEPT ![g] = "paused"]
    /\ last' = NoEvent
    /\ UNCHANGED <<channel, session, roster, actions, logs,
                   active_rounds, ai_callback, min_players, probe, now, callv, spc, squeue, markCount>>

\* The resume command with ENDED games among those it looks for.
HandleDmResumeEnded(ch) ==
    /\ GamesIn(ch, {"paused", "ended"}) # {}
    /\ LET g == Min(GamesIn(ch, {"paused", "ended"}))
       IN status' = [status EXCEPT ![g] = "active"]
    /\ last' = NoEvent
    /\ UNCHANGED <<channel, session, roster, actions, logs,
                   active_rounds, ai_callback, min_players, probe, now, callv, spc, squeue, markCount>>

\* admin.py:123-139
HandleDmResume(ch) ==
    /\ GamesIn(ch, {"paused"}) # {}
    /\ LET g == Min(GamesIn(ch, {"paused"}))
       IN status' = [status EXCEPT ![g] = "active"]
    /\ last' = NoEvent
    /\ UNCHANGED <<channel, session, roster, actions, logs,
                   active_rounds, ai_callback, min_players, probe, now, callv, spc, squeue, markCount>>

\* admin.py:141-167
HandleDmEnd(ch) ==
    /\ GamesIn(ch, {"active", "paused"}) # {}
    /\ LET g == Min(GamesIn(ch, {"active", "paused"}))
       IN /\ status' = [status EXCEPT ![g] = "ended"]
          /\ logs' = [logs EXCEPT ![g] = Append(@, SystemLog("Game ended by DM."))]
    /\ last' = NoEvent
    /\ UNCHANGED <<channel, session, roster, actions,
                   active_rounds, ai_callback, min_players, probe, now, callv, spc, squeue, markCount>>

\* ---------------------------------------------------------- player command

\* player.py:77-91: a character is created with hp = max_hp = DEFAULT_HP, and
\* no code writes Player.hp afterwards.
Hp(p) == DEFAULT_HP

\* validation.py:89-90, the admission gate: an unconscious player cannot act
ValidateAction(p) == Hp(p) > 0

\* player.py:103-183 with a description: the player joins the roster of the
\* channel's active game and the action is stored as pending.
HandleAction(p, ch, text) ==
    /\ GamesIn(ch, {"active"}) # {}
    /\ ValidateAction(p)
    /\ Len(actions) < MaxActions
    /\ LET g == Min(GamesIn(ch, {"active"}))
       IN /\ roster' = [roster EXCEPT ![g] = @ \cup {p}]
          /\ actions' = Append(actions,
                [game_id |-> g, player_id |-> p, action_text |-> text,
                 timestamp |-> now, processed |-> FALSE])
          /\ markCount' = Append(markCount, 0)
    /\ last' = NoEvent
    /\ UNCHANGED <<status, channel, session, logs, active_rounds,
                   ai_callback, min_players, probe, now, callv, spc, squeue>>

\* The description of an /action command after strip(): empty, or a text.
Descriptions == {""} \cup ActionTexts

\* player.py:115-168: the return handle_action takes before it stores the
\* action, "none" if it takes none.
RejectionOf(p, ch, text) ==
    IF p \notin Players THEN "no_character"
    ELSE IF GamesIn(ch, {"active"}) = {} THEN "no_game"
    ELSE IF text = "" THEN "empty"
    ELSE IF ~ValidateAction(p) THEN "gate"
    ELSE "none"

\* player.py:103-168, the command rejected.  The GamePlayer row is added and
\* flushed (player.py:141-145) before the description and the admission gate
\* are looked at, and no return rolls it back: every handler and the engine
\* work through the one database session (main.py:57, 99, 120, 170), so the
\* row is in what their queries return from then on and is made durable by
\* the next commit of any of them.  roster is what these queries return.
HandleActionRejected(p, ch, text) ==
    /\ RejectionOf(p, ch, text) # "none"
    /\ roster' = IF RejectionOf(p, ch, text) \in {"empty", "gate"}
                 THEN [roster EXCEPT ![Min(GamesIn(ch, {"active"}))] = @ \cup {p}]
                 ELSE roster
    /\ last' = [NoEvent EXCEPT !.call = "handle_action",
                               !.why = RejectionOf(p, ch, text)]
    /\ UNCHANGED <<status, channel, session, actions, logs, active_rounds,
                   ai_callback, min_players, probe, now, callv, spc, squeue,
                   markCount>>

\* engine.py:191-211: the row is added and committed as it comes, for any
\* game id and player id; SQLite does not enforce the foreign keys.
QueueAction(g, p, text) ==
    /\ Len(actions) < MaxActions
    /\ actions' = Append(actions,
            [game_id |-> g, player_id |-> p, action_text |-> text,
             timestamp |-> now, processed |-> FALSE])
    /\ markCount' = Append(markCount, 0)
    /\ last' = [NoEvent EXCEPT !.call = "queue_action", !.game = g]
    /\ UNCHANGED <<status, channel, session, roster, logs, active_rounds,
                   ai_callback, min_players, probe, now, callv, spc, squeue>>

\* Time passes: one round timeout at a step.
Tick ==
    /\ now + ROUND_TIMEOUT_SECONDS <= MaxTime
    /\ now' = now + ROUND_TIMEOUT_SECONDS
    /\ last' = NoEvent
    /\ UNCHANGED <<store, active_rounds, ai_callback, min_players, probe, callv, spc, squeue, markCount>>

\* ------------------------------------------------------- the specification

Init ==
    /\ status = [g \in OneGame |-> "none"]
    /\ channel = [g \in OneGame |-> "none"]
    /\ session = [g \in OneGame |-> NoSession]
    /\ roster = [g \in OneGame |-> {}]
    /\ actions = <<>>
    /\ logs = [g \in OneGame |-> <<>>]
    /\ active_rounds = {}
    /\ ai_callback \in BOOLEAN
    /\ now = 0
    /\ pc = [c \in Calls |-> "idle"]
    /\ cgame = [c \in Calls |-> 0]
    /\ csnap = [c \in Calls |-> NoSnap]
    /\ spc = "sleep"
    /\ squeue = <<>>
    /\ last = NoEvent
    /\ markCount = <<>>
    /\ min_players = MIN_PLAYERS_FOR_ROUND
    /\ probe = NoProbe

Next ==
    \/ SweepStart
    \/ SweeperCalls
    \/ ManualCalls
    \/ \E c \in Calls : NarratorReturns(c)
    \/ \E c \in Calls : NarratorCancelled(c)
    \/ \E ch \in Channels : HandleDmStart(ch)
    \/ \E ch \in Channels : HandleDmPause(ch)
    \/ \E ch \in Channels : HandleDmResume(ch)
    \/ \E ch \in Channels : HandleDmEnd(ch)
    \/ \E p \in Players, ch \in Channels, text \in ActionTexts : HandleAction(p, ch, text)
    \/ Tick

Spec == Init /\ [][Next]_vars

\* ------------------------------------------- the scheduler at its boundary
\* A game that is running: its roster and pending actions are those
\* handle_action leaves, the clock is anywhere around the round timeout, and
\* MIN_PLAYERS_FOR_ROUND is the default or 2.  From there rounds are
\* attempted, actions arrive through both enqueue entry points and time
\* passes by any amount.

MinPlayersValues == {MIN_PLAYERS_FOR_ROUND, MIN_PLAYERS_FOR_ROUND + 1}

\* The game started at 0; the clock is there, or one second before, at or
\* after the round timeout of an action stored at 0.
ClockValues == {0} \cup ((ROUND_TIMEOUT_SECONDS - 1)..(ROUND_TIMEOUT_SECONDS + 1))

\* The actions handle_action has stored: at most one here, by a roster member.
StoredActions(players) ==
    {<<>>} \cup {<<[game_id |-> 1, player_id |-> p, action_text |-> text,
                    timestamp |-> ts, processed |-> FALSE]>> :
                        p \in players, text \in ActionTexts, ts \in {0}}

TimePasses ==
    /\ \E t \in ClockValues : t > now /\ now' = t
    /\ last' = NoEvent
    /\ UNCHANGED <<store, active_rounds, ai_callback, min_players, probe,
                   callv, spc, squeue, markCount>>

SchedInit ==
    /\ status \in [OneGame -> {"active", "paused"}]
    /\ channel = [g \in OneGame |-> ChannelOf(g)]
    /\ session = [g \in OneGame |->
                    [exists |-> TRUE, round_number |-> 1, current_turn |-> 0]]
    /\ roster \in [OneGame -> SUBSET Players]
    /\ actions \in StoredActions(roster[1])
    /\ logs = [g \in OneGame |-> <<SystemLog("Game started by DM"), OpeningLog>>]
    /\ active_rounds = {}
    /\ ai_callback = FALSE
    /\ now \in {t \in ClockValues : \A a \in 1..Len(actions) : actions[a].timestamp <= t}
    /\ pc = [c \in Calls |-> "idle"]
    /\ cgame = [c \in Calls |-> 0]
    /\ csnap = [c \in Calls |-> NoSnap]
    /\ spc = "sleep"
    /\ squeue = <<>>
    /\ last = NoEvent
    /\ markCount = [a \in 1..Len(actions) |-> 0]
    /\ min_players \in MinPlayersValues
    /\ probe = NoProbe

SchedNext ==
    \/ SweepStart
    \/ SweeperCalls
    \/ \E g \in GameIds, p \in Players, text \in ActionTexts : QueueAction(g, p, text)
    \/ \E p \in Players, ch \in Channels, text \in ActionTexts : HandleAction(p, ch, text)
    \/ TimePasses

SchedSpec == SchedInit /\ [][SchedNext]_vars


\* ------------------------------------------------------------- properties

InFlight(g) == {c \in Calls : pc[c] = "await" /\ cgame[c] = g}
Processed(ids) == \A a \in SeqRange(ids) : actions[a].processed
Last(s) == s[Len(s)]

\* C1: at any instant at most one process_round call per game id is between
\* acquiring the active_rounds token and releasing it, and a call that is
\* suspended at the narrator holds the token of its game.  The test and the
\* insertion (engine.py:45-49) are one step of ProcessRound: no await lies
\* between them.
C1_MutualExclusion ==
    \A g \in GameIds :
        /\ Cardinality(InFlight(g)) <= 1
        /\ InFlight(g) # {} => g \in active_rounds

\* A second call arrived for the game while the manual call was in flight.
C1_Witness ==
    /\ pc["manual"] = "await"
    /\ last.call = "sweeper" /\ last.why = "busy" /\ last.game = cgame["manual"]

\* C2: a process_round(g) that starts while the token of g is held returns at
\* once with None: it is not suspended, writes no action, session or log,
\* commits nothing and leaves active_rounds as it is.
C2_BusyIsNoOp ==
    [][/\ (last'.call \in Calls /\ pc[last'.call] = "idle"
              /\ last'.game \in active_rounds)
            => last'.why = "busy"
       /\ last'.why = "busy"
            => /\ last'.ret = None
               /\ UNCHANGED <<store, active_rounds, callv, markCount>>]_vars

\* The manual call found the sweeper's resolution of the game in flight.
C2_Witness ==
    /\ last.call = "manual" /\ last.why = "busy"
    /\ pc["sweeper"] = "await" /\ cgame["sweeper"] = last.game
    /\ pc["manual"] = "idle"
    /\ last.game \in active_rounds

\* C3: a session's round_number never decreases, no step changes it by more
\* than 1, and the step that commits a round increases it by exactly 1.
C3_RoundMonotone ==
    [][\A g \in GameIds :
          /\ session[g].exists =>
                /\ session'[g].exists
                /\ session'[g].round_number \in
                      {session[g].round_number, session[g].round_number + 1}
          /\ (last'.why = "committed" /\ last'.game = g) =>
                session'[g].round_number = session[g].round_number + 1]_vars

\* Two rounds of the game were committed, the second just now.
C3_Witness ==
    /\ last.why = "committed"
    /\ session[last.game].round_number = 3
    /\ last.snap.round_number = 2

\* C4: an action is marked processed at most once, and only by the commit of
\* a process_round whose snapshot holds it; a processed action stays
\* processed, is in no snapshot of a call in flight and is not among the
\* pending_actions of get_game_state.
C4_ProcessedOnce ==
    /\ [](\A a \in ActionIds :
            /\ markCount[a] <= 1
            /\ actions[a].processed <=> markCount[a] = 1)
    /\ [](\A c \in Calls : pc[c] = "await" => ~\E a \in SeqRange(csnap[c].pending) :
                                                   actions[a].processed)
    /\ [](\A g \in GameIds : ~\E a \in SeqRange(GetGameState(g).pending_actions) :
                                  actions[a].processed)
    /\ [][\A a \in ActionIds :
            /\ actions[a].processed => actions'[a].processed
            /\ (~actions[a].processed /\ actions'[a].processed) =>
                  /\ last'.why \in {"committed", "error"}
                  /\ a \in SeqRange(last'.snap.action_ids)]_vars

\* A round was committed that left out an action processed before it.
C4_Witness ==
    /\ last.why = "committed" /\ last.snap.action_ids # <<>>
    /\ \E a \in ActionIds :
          /\ actions[a].processed
          /\ actions[a].game_id = last.game
          /\ a \notin SeqRange(last.snap.action_ids)

\* C5: the commit is all or nothing: after a process_round in which a store
\* write failed, none of the snapshot's actions is processed and the round
\* number is the snapshot's; in no state are the actions of a round processed
\* without the round number advanced, or the reverse.
C5_AtomicCommit ==
    (last.why \in {"committed", "error"} /\ last.snap.action_ids # <<>>) =>
        LET advanced == session[last.game].round_number = last.snap.round_number + 1
        IN /\ Processed(last.snap.action_ids) <=> advanced
           /\ last.why = "error" => ~advanced

\* C6: a persistence failure in process_round reaches the invoker as an
\* error, unlike "nothing to resolve", "busy" and "game not active"; no other
\* failure is raised past process_round.
C6_PersistenceFailureReported ==
    /\ last.why = "error" => last.ret = Raised
    /\ last.why \in {"busy", "not_active", "no_pending", "declined", "committed"}
          => last.ret.kind # "raise"

\* C7: when the narrator callback raises, or its client meets a timeout, a
\* connection failure or a non-200 answer, and no store write fails, the
\* round is committed: the snapshot's actions are processed, round_number is
\* the snapshot's plus 1, and the value returned is a non-empty fallback
\* narrative, which is the last row of the game's log.
C7_NarratorFailureCommits ==
    (last.narr \in {"raise", "client_fallback"} /\ last.fail = "none") =>
        LET g == last.game
            pa == last.snap.player_actions
        IN /\ last.why = "committed"
           /\ Processed(last.snap.action_ids)
           /\ session[g].round_number = last.snap.round_number + 1
           /\ Truthy(last.ret)
           /\ last.ret = IF last.narr = "raise" THEN Str(UnfoldFallback(pa))
                         ELSE Str(ClientFallback(pa))
           /\ logs[g] # <<>>
           /\ Last(logs[g]) = [type |-> "narrative",
                               round |-> last.snap.round_number,
                               text |-> last.ret.text]

\* The callback raised and the round was committed.
C7_Witness ==
    /\ last.narr = "raise" /\ last.why = "committed"
    /\ last.snap.action_ids # <<>>

\* C8: when the narrator callback returns an empty text or None, the round
\* returns the fallback narrative and appends it to the log.
C8_EmptyNarrationFallsBack ==
    (last.narr \in {"empty", "none"} /\ last.why = "committed") =>
        /\ last.ret = Str(UnfoldFallback(last.snap.player_actions))
        /\ logs[last.game] # <<>>
        /\ Last(logs[last.game]) = [type |-> "narrative",
                                    round |-> last.snap.round_number,
                                    text |-> last.ret.text]

\* C9: while a game is PAUSED or WAITING no step changes its round_number or
\* marks one of its actions processed.
C9_PausedNeverAdvances ==
    [][\A g \in GameIds :
          status[g] \in {"paused", "waiting"} =>
              /\ session'[g].round_number = session[g].round_number
              /\ \A a \in ActionIds :
                    actions[a].game_id = g =>
                        actions'[a].processed = actions[a].processed]_vars

\* C10: the token of a game is held exactly while a process_round call for it
\* is suspended at the narrator: every exit (not active, nothing pending,
\* scheduler declines, commit, failed store read or write, exception of the
\* narrator, cancellation) has released it, so a call reported busy always
\* has a resolution of its game in flight.
C10_TokenReleased ==
    /\ active_rounds = {g \in GameIds : InFlight(g) # {}}
    /\ last.why = "busy" => InFlight(last.game) # {}

\* A store write failed after the narrator call and no token is left.
C10_Witness ==
    /\ last.why = "error" /\ last.fail = "session" /\ last.narr = "text"
    /\ active_rounds = {}

\* -------------------------------------------------- the sweeper's loop
\* Two games in two channels, each with its own participant and at most one
\* pending action; the only caller of process_round is the sweeper.  The DM
\* pauses and resumes the games meanwhile.

TwoGames == {1, 2}

\* The action of game g's participant, stored at time 0.
ActionOf(g) ==
    [game_id |-> g, player_id |-> g, action_text |-> "attacks",
     timestamp |-> 0, processed |-> FALSE]

SweepInit ==
    /\ status \in [TwoGames -> {"active", "paused"}]
    /\ channel = [g \in TwoGames |-> ChannelOf(g)]
    /\ session = [g \in TwoGames |->
                    [exists |-> TRUE, round_number |-> 1, current_turn |-> 0]]
    /\ roster = [g \in TwoGames |-> {g}]
    /\ actions \in {<<>>, <<ActionOf(1)>>, <<ActionOf(2)>>,
                     <<ActionOf(1), ActionOf(2)>>}
    /\ logs = [g \in TwoGames |-> <<SystemLog("Game started by DM"), OpeningLog>>]
    /\ active_rounds = {}
    /\ ai_callback \in BOOLEAN
    /\ now = 0
    /\ pc = [c \in Calls |-> "idle"]
    /\ cgame = [c \in Calls |-> 0]
    /\ csnap = [c \in Calls |-> NoSnap]
    /\ spc = "sleep"
    /\ squeue = <<>>
    /\ last = NoEvent
    /\ markCount = [a \in 1..Len(actions) |-> 0]
    /\ min_players = MIN_PLAYERS_FOR_ROUND
    /\ probe = NoProbe

\* The interval sleep of the loop ends.
SleepEnds == SweepStart \/ SweepEmpty \/ SweepListFails

\* The narrator call of the sweeper's round ends.
NarratorEnds == NarratorReturns("sweeper") \/ NarratorCancelled("sweeper")

SweepNext ==
    \/ SweepStart
    \/ SweepEmpty
    \/ SweepListFails
    \/ CooldownEnds
    \/ SweeperCalls
    \/ NarratorReturns("sweeper")
    \/ NarratorCancelled("sweeper")
    \/ \E ch \in Channels : HandleDmPause(ch)
    \/ \E ch \in Channels : HandleDmResume(ch)

\* asyncio.sleep returns after its delay, a coroutine that can run is run,
\* and the narrator call ends: generate_story gives up after 60 seconds.
SweepSpec ==
    /\ SweepInit /\ [][SweepNext]_vars
    /\ WF_vars(SleepEnds)
    /\ WF_vars(CooldownEnds)
    /\ WF_vars(SweeperCalls)
    /\ WF_vars(NarratorEnds)

\* ------------------------------------------------- games and channels
\* Two channels and room for two games: the DM commands arrive in either
\* channel in any order and players act meanwhile.

AdminInit ==
    /\ status = [g \in TwoGames |-> "none"]
    /\ channel = [g \in TwoGames |-> "none"]
    /\ session = [g \in TwoGames |-> NoSession]
    /\ roster = [g \in TwoGames |-> {}]
    /\ actions = <<>>
    /\ logs = [g \in TwoGames |-> <<>>]
    /\ active_rounds = {}
    /\ ai_callback = FALSE
    /\ now = 0
    /\ pc = [c \in Calls |-> "idle"]
    /\ cgame = [c \in Calls |-> 0]
    /\ csnap = [c \in Calls |-> NoSnap]
    /\ spc = "sleep"
    /\ squeue = <<>>
    /\ last = NoEvent
    /\ markCount = <<>>
    /\ min_players = MIN_PLAYERS_FOR_ROUND
    /\ probe = NoProbe

AdminNext ==
    \/ \E ch \in Channels : HandleDmStart(ch)
    \/ \E ch \in Channels : HandleDmPause(ch)
    \/ \E ch \in Channels : HandleDmResume(ch)
    \/ \E ch \in Channels : HandleDmEnd(ch)
    \/ \E p \in Players, ch \in Channels, text \in ActionTexts : HandleAction(p, ch, text)

AdminSpec == AdminInit /\ [][AdminNext]_vars

\* ----------------------------------------------------- the state query
\* get_game_state as a function of the store it finds: a game that is
\* missing or has any status, with or without a session row, its roster and
\* the action stored for it.  The state is asked for directly and by
\* process_round.

StartedSession(r) == [exists |-> TRUE, round_number |-> r, current_turn |-> 0]

\* state.py:20-96 called by a component other than the engine
\* (test_cli.py:183): the session row is created if the game has none.
GetGameStateCall(g) ==
    /\ session' = LoadSession(g)
    /\ last' = [NoEvent EXCEPT
                  !.call = "get_game_state", !.game = g,
                  !.why = IF status[g] = "none" THEN "no_game"
                          ELSE IF session[g].exists THEN "found" ELSE "created",
                  !.snap = [NoSnap EXCEPT
                              !.round_number = GetGameState(g).round_number,
                              !.pending = GetGameState(g).pending_actions]]
    /\ UNCHANGED <<status, channel, roster, actions, logs, active_rounds,
                   ai_callback, min_players, probe, now, callv, spc, squeue,
                   markCount>>

QueryInit ==
    /\ status \in [OneGame -> {"none", "active", "paused", "ended"}]
    /\ channel = [g \in OneGame |-> IF status[g] = "none" THEN "none" ELSE ChannelOf(g)]
    /\ session \in [OneGame -> {NoSession, StartedSession(1), StartedSession(2)}]
    /\ \A g \in OneGame : status[g] = "none" => session[g] = NoSession
    /\ roster \in [OneGame -> SUBSET Players]
    /\ \A g \in OneGame : status[g] = "none" => roster[g] = {}
    /\ actions \in StoredActions(roster[1])
    /\ logs = [g \in OneGame |->
                 IF status[g] = "none" THEN <<>>
                 ELSE <<SystemLog("Game started by DM"), OpeningLog>>]
    /\ active_rounds = {}
    /\ ai_callback \in BOOLEAN
    /\ now = 0
    /\ pc = [c \in Calls |-> "idle"]
    /\ cgame = [c \in Calls |-> 0]
    /\ csnap = [c \in Calls |-> NoSnap]
    /\ spc = "sleep"
    /\ squeue = <<>>
    /\ last = NoEvent
    /\ markCount = [a \in 1..Len(actions) |-> 0]
    /\ min_players = MIN_PLAYERS_FOR_ROUND
    /\ probe = NoProbe

QueryNext ==
    \/ \E g \in GameIds : GetGameStateCall(g)
    \/ ManualCalls
    \/ NarratorReturns("manual")

QuerySpec == QueryInit /\ [][QueryNext]_vars

\* --------------------------------------------- two games at the same time
\* Two ACTIVE games with one pending action each at most and a narrator
\* callback: the sweeper and another caller resolve rounds of either game,
\* each suspended for as long as its narrator call takes.

PairInit ==
    /\ status = [g \in TwoGames |-> "active"]
    /\ channel = [g \in TwoGames |-> ChannelOf(g)]
    /\ session = [g \in TwoGames |-> StartedSession(1)]
    /\ roster = [g \in TwoGames |-> {g}]
    /\ actions \in {<<>>, <<ActionOf(1)>>, <<ActionOf(2)>>,
                     <<ActionOf(1), ActionOf(2)>>}
    /\ logs = [g \in TwoGames |-> <<SystemLog("Game started by DM"), OpeningLog>>]
    /\ active_rounds = {}
    /\ ai_callback = TRUE
    /\ now = 0
    /\ pc = [c \in Calls |-> "idle"]
    /\ cgame = [c \in Calls |-> 0]
    /\ csnap = [c \in Calls |-> NoSnap]
    /\ spc = "sleep"
    /\ squeue = <<>>
    /\ last = NoEvent
    /\ markCount = [a \in 1..Len(actions) |-> 0]
    /\ min_players = MIN_PLAYERS_FOR_ROUND
    /\ probe = NoProbe

PairNext ==
    \/ SweepStart
    \/ SweeperCalls
    \/ ManualCalls
    \/ \E c \in Calls : NarratorReturns(c)

PairSpec == PairInit /\ [][PairNext]_vars

\* ------------------------------------------- hanging narrator and shutdown
\* The sweeper's loop of SweepSpec with a narrator that may never answer and
\* with the cancellation of the sweeper task (main.py:196-201) at each await
\* of the loop.  A call whose narrator will not answer is "hung".

\* The narrator does not answer the request of the suspended call.
NarratorHangs(c) ==
    /\ pc[c] = "await"
    /\ pc' = [pc EXCEPT ![c] = "hung"]
    /\ last' = NoEvent
    /\ UNCHANGED <<store, active_rounds, ai_callback, min_players, probe, now,
                   cgame, csnap, spc, squeue, markCount>>

\* The client without a timeout on its request.
ClientTimeoutNever(c) ==
    /\ pc[c] = "hung"
    /\ FALSE
    /\ UNCHANGED vars

\* ollama_client.py:56 with 78-80: the request is given up after 60 seconds,
\* generate_story returns its fallback text and process_round goes on to the
\* commit (engine.py:110-147).
ClientTimeout(c) ==
    /\ pc[c] = "hung"
    /\ LET narrative == Narrative("client_fallback", csnap[c].player_actions)
       IN \E fail \in FailPoints(csnap[c].action_ids, narrative) :
             Commit(c, cgame[c], csnap[c], narrative, "timeout", fail)
    /\ active_rounds' = ReleaseToken(active_rounds, cgame[c])
    /\ pc' = [pc EXCEPT ![c] = "idle"]
    /\ cgame' = [cgame EXCEPT ![c] = 0]
    /\ csnap' = [csnap EXCEPT ![c] = NoSnap]
    /\ AfterCall(c)
    /\ UNCHANGED <<status, channel, roster, ai_callback, min_players, probe, now>>

\* main.py:197 while the loop is in asyncio.sleep(interval) (engine.py:234):
\* CancelledError is no Exception, the except clause at engine.py:236 does
\* not catch it and the task ends.
SleepCancelled ==
    /\ spc = "sleep"
    /\ spc' = "stopped"
    /\ last' = [NoEvent EXCEPT !.call = "sweeper", !.why = "cancelled"]
    /\ UNCHANGED <<store, active_rounds, ai_callback, min_players, probe, now,
                   callv, squeue, markCount>>

\* main.py:197 while the loop is in asyncio.sleep(5) (engine.py:238), inside
\* the except clause: the error leaves the loop.
CooldownCancelled ==
    /\ spc = "cooldown"
    /\ spc' = "stopped"
    /\ last' = [NoEvent EXCEPT !.call = "sweeper", !.why = "cancelled"]
    /\ UNCHANGED <<store, active_rounds, ai_callback, min_players, probe, now,
                   callv, squeue, markCount>>

ShutdownInit == SweepInit

\* The request of the suspended call is answered, or it is not, or the task
\* is cancelled meanwhile.
NarratorResponds ==
    NarratorReturns("sweeper") \/ NarratorHangs("sweeper")
        \/ NarratorCancelled("sweeper")

ShutdownNext ==
    \/ SweepStart
    \/ SweepEmpty
    \/ SweepListFails
    \/ CooldownEnds
    \/ SweeperCalls
    \/ NarratorReturns("sweeper")
    \/ NarratorHangs("sweeper")
    \/ ClientTimeout("sweeper")
    \/ NarratorCancelled("sweeper")
    \/ SleepCancelled
    \/ CooldownCancelled
    \/ \E ch \in Channels : HandleDmPause(ch)
    \/ \E ch \in Channels : HandleDmResume(ch)

\* asyncio.sleep returns after its delay, a coroutine that can run is run,
\* and the client's timer of 60 seconds fires.  Nothing makes the narrator
\* answer and nothing makes the task be cancelled.
ShutdownSpec ==
    /\ ShutdownInit /\ [][ShutdownNext]_vars
    /\ WF_vars(SleepEnds)
    /\ WF_vars(CooldownEnds)
    /\ WF_vars(SweeperCalls)
    /\ WF_vars(NarratorResponds)
    /\ WF_vars(ClientTimeout("sweeper"))

\* ------------------------------------------------------------ validation
\* StatValidator.validate_stat_allocation and ActionValidator
\* .validate_hp_change are functions of their arguments; probe records the
\* call just made.

\* validation.py:30, the required stats in the order they are looked for;
\* parser.py:124-130 inserts the keys of a stat map in the same order.
RequiredStats == <<"STR", "DEX", "CON", "INT", "WIS", "CHA">>

\* settings.py:33-36
STAT_POINT_COSTS ==
    [v \in 8..18 |-> CASE v = 8 -> 0 [] v = 9 -> 1 [] v = 10 -> 2 [] v = 11 -> 3
                       [] v = 12 -> 4 [] v = 13 -> 5 [] v = 14 -> 7 [] v = 15 -> 9
                       [] v = 16 -> 12 [] v = 17 -> 15 [] v = 18 -> 19]

\* stats.items(): the keys of the map in insertion order
Items(stats) == SelectSeq(RequiredStats, LAMBDA k : k \in DOMAIN stats)

\* The first element of a sequence as a one-element sequence, <<>> if there
\* is none: where a for loop with a return in its body stops.
First(hits) == IF hits = <<>> THEN <<>> ELSE <<Head(hits)>>

RECURSIVE SumCosts(_, _)
SumCosts(stats, keys) ==
    IF keys = <<>> THEN 0
    ELSE STAT_POINT_COSTS[stats[Head(keys)]] + SumCosts(stats, Tail(keys))

Accepted == [ok |-> TRUE, error |-> "none", stat |-> "none"]
Rejection(error, stat) == [ok |-> FALSE, error |-> error, stat |-> stat]

\* The budget test with >= for >.
ValidateStatAllocationBudgetStrict(stats) ==
    LET missing == First(SelectSeq(RequiredStats, LAMBDA k : k \notin DOMAIN stats))
        outside == First(SelectSeq(Items(stats), LAMBDA k : stats[k] > STAT_MAX \/ stats[k] < STAT_MIN))
    IN  IF missing # <<>> THEN Rejection("missing", missing[1])
        ELSE IF outside # <<>>
             THEN IF stats[outside[1]] > STAT_MAX
                  THEN Rejection("exceeds_maximum", outside[1])
                  ELSE Rejection("below_minimum", outside[1])
        ELSE IF SumCosts(stats, Items(stats)) >= STAT_POINT_BUY_MAX
             THEN Rejection("total_points_exceeded", "none")
        ELSE Accepted

\* validation.py:19-58.  The result is (is_valid, error_message); of the
\* message the kind and the stat it names are kept.
ValidateStatAllocation(stats) ==
    LET missing == First(SelectSeq(RequiredStats, LAMBDA k : k \notin DOMAIN stats))
        outside == First(SelectSeq(Items(stats), LAMBDA k : stats[k] > STAT_MAX \/ stats[k] < STAT_MIN))
        uncosted == First(SelectSeq(Items(stats), LAMBDA k : stats[k] \notin DOMAIN STAT_POINT_COSTS))
    IN  IF missing # <<>> THEN Rejection("missing", missing[1])
        ELSE IF outside # <<>>
             THEN IF stats[outside[1]] > STAT_MAX
                  THEN Rejection("exceeds_maximum", outside[1])
                  ELSE Rejection("below_minimum", outside[1])
        ELSE IF uncosted # <<>> THEN Rejection("invalid_value", uncosted[1])
        ELSE IF SumCosts(stats, Items(stats)) > STAT_POINT_BUY_MAX
             THEN Rejection("total_points_exceeded", "none")
        ELSE Accepted

\* Stat maps as the parser builds them: any subset of the six keys, values
\* around STAT_MIN and around STAT_MAX.
StatValues ==
    ((STAT_MIN - StatSpread)..(STAT_MIN + StatSpread))
        \cup ((STAT_MAX - StatSpread)..(STAT_MAX + StatSpread))
Range(f) == {f[k] : k \in DOMAIN f}
StatMaps == UNION {[keys -> StatValues] : keys \in SUBSET Range(RequiredStats)}

StatMap(str, dex, con, int, wis, cha) ==
    [k \in Range(RequiredStats) |->
        CASE k = "STR" -> str [] k = "DEX" -> dex [] k = "CON" -> con
          [] k = "INT" -> int [] k = "WIS" -> wis [] k = "CHA" -> cha]

\* test_cli.py:366 and 369, the allocations of the quick test, and the
\* allocation of all 18
ValidStats == StatMap(15, 12, 14, 10, 13, 13)
InvalidStats == StatMap(20, 18, 18, 18, 18, 18)
AllEighteen == StatMap(18, 18, 18, 18, 18, 18)

StatProbe(stats) ==
    [fn |-> "validate_stat_allocation", stats |-> stats,
     result |-> ValidateStatAllocation(stats)]

\* player.py:69: handle_create validates the stats of the command
ValidateCharacterCreation ==
    /\ probe = NoProbe
    /\ \E stats \in StatMaps : probe' = StatProbe(stats)
    /\ UNCHANGED <<store, active_rounds, ai_callback, min_players, now,
                   callv, spc, squeue, last, markCount>>

\* test_cli.py:364-370
TestStatValidation ==
    /\ probe = NoProbe
    /\ \E stats \in {ValidStats, InvalidStats, AllEighteen} : probe' = StatProbe(stats)
    /\ UNCHANGED <<store, active_rounds, ai_callback, min_players, now,
                   callv, spc, squeue, last, markCount>>

\* validation.py:165-191, on the player's hp, max_hp and CON
ValidateHpChange(hp, max_hp, con, change, is_healing) ==
    IF is_healing
    THEN IF hp + change > max_hp THEN Rejection("healing_exceeds_max", "none")
         ELSE Accepted
    ELSE LET death_threshold == -con
             new_hp == hp - change
         IN IF new_hp < death_threshold
            THEN Rejection("damage_causes_death", "none")
            ELSE Accepted

\* Players as handle_create leaves them: max_hp = DEFAULT_HP, CON within the
\* stat limits; hp anywhere from 0 to max_hp.
HpValues == 0..DEFAULT_HP
ConValues == STAT_MIN..STAT_MAX
HpChanges == (0 - MaxHpChange)..MaxHpChange

\* ValidationSystem.validate_hp (validation.py:217-219)
ValidateHp ==
    /\ probe = NoProbe
    /\ \E hp \in HpValues, con \in ConValues, change \in HpChanges,
          is_healing \in BOOLEAN :
         probe' = [fn |-> "validate_hp_change", hp |-> hp, max_hp |-> DEFAULT_HP,
                   con |-> con, change |-> change, is_healing |-> is_healing,
                   result |-> ValidateHpChange(hp, DEFAULT_HP, con, change,
                                               is_healing)]
    /\ UNCHANGED <<store, active_rounds, ai_callback, min_players, now,
                   callv, spc, squeue, last, markCount>>

\* The caller has the result; the next call can be made.
ValidatorReturns ==
    /\ probe # NoProbe
    /\ probe' = NoProbe
    /\ UNCHANGED <<store, active_rounds, ai_callback, min_players, now,
                   callv, spc, squeue, last, markCount>>

ValidInit == Init /\ ai_callback

ValidNext ==
    \/ ValidateCharacterCreation
    \/ TestStatValidation
    \/ ValidateHp
    \/ ValidatorReturns

ValidSpec == ValidInit /\ [][ValidNext]_vars

\* ------------------------------------------------- properties: scheduling

Actors(pending) == {actions[a].player_id : a \in SeqRange(pending)}
OldestAge(pending) == now - Min({actions[a].timestamp : a \in SeqRange(pending)})

\* The decision as the contract words it: the age must exceed the timeout.
ReferenceDecision(g, force) ==
    LET pending == PendingActions(g)
    IN  IF force THEN TRUE
        ELSE IF pending = <<>> THEN FALSE
        ELSE IF Len(pending) < min_players THEN FALSE
        ELSE IF Cardinality(Actors(pending)) >= Cardinality(roster[g]) THEN TRUE
        ELSE OldestAge(pending) > ROUND_TIMEOUT_SECONDS

\* C11: _should_process_round equals the reference decision: true if forced;
\* else false if nothing is pending; else false below MIN_PLAYERS_FOR_ROUND;
\* else true if the distinct participants among the pending actions are at
\* least the roster size; else true exactly when the age of the oldest
\* pending action is strictly greater than ROUND_TIMEOUT_SECONDS.
C11_StrictTimeout ==
    \A g \in GameIds, force \in BOOLEAN :
        ShouldProcessRound(roster[g], PendingActions(g), force, now)
            = ReferenceDecision(g, force)

\* C12: with MIN_PLAYERS_FOR_ROUND = 1 and a roster of one participant who
\* has a pending action, _should_process_round is true without force at any
\* age of the action, and a non-forced process_round of the ACTIVE game is
\* not declined: it commits the round unless a store read or write fails.
C12_SingleParticipantResolves ==
    [][(/\ last'.call = "sweeper" /\ last'.why # "busy"
        /\ status[last'.game] = "active"
        /\ min_players = 1
        /\ Cardinality(roster[last'.game]) = 1
        /\ roster[last'.game] \subseteq Actors(PendingActions(last'.game)))
       => /\ ShouldProcessRound(roster[last'.game], PendingActions(last'.game),
                                FALSE, now)
          /\ last'.why \in {"await", "committed", "error"}
          /\ last'.why = "error" => last'.fail \in {"load", "mark", "session", "log"}
          /\ last'.why = "committed" =>
                session'[last'.game].round_number
                    = session[last'.game].round_number + 1]_vars

\* The only participant's action was resolved by the sweeper at age 0.
C12_Witness ==
    /\ last.call = "sweeper" /\ last.why = "committed"
    /\ Cardinality(roster[last.game]) = 1
    /\ Len(last.snap.pending) = 1
    /\ actions[last.snap.pending[1]].player_id \in roster[last.game]
    /\ actions[last.snap.pending[1]].timestamp = now
    /\ min_players = 1

\* The state of the quorum example: two participants, one pending action, the
\* default minimum, the sweeper's call for the ACTIVE game is not busy.
QuorumExample(g) ==
    /\ status[g] = "active"
    /\ min_players = 1
    /\ Cardinality(roster[g]) = 2
    /\ Len(PendingActions(g)) = 1

\* The call left the round unresolved: the scheduler declined, or the
\* snapshot could not be read.
Unresolved(ev) == ev.why = "declined" \/ (ev.why = "error" /\ ev.fail = "load")

\* C13: in the quorum example every non-forced process_round before the
\* action's age exceeds ROUND_TIMEOUT_SECONDS leaves the round unresolved, and
\* every one after the age exceeds it resolves.
C13_UnresolvedUntilExceeded ==
    [][(last'.call = "sweeper" /\ last'.why # "busy" /\ QuorumExample(last'.game))
       => IF OldestAge(PendingActions(last'.game)) <= ROUND_TIMEOUT_SECONDS
          THEN Unresolved(last') /\ UNCHANGED <<actions, session, logs>>
          ELSE last'.why # "declined"]_vars

\* C14: whenever _should_process_round is true without force before the
\* oldest pending action has reached the timeout, every participant of the
\* game's roster has a pending action.
C14_QuorumCoversRoster ==
    \A g \in GameIds :
        LET pending == PendingActions(g)
        IN (/\ pending # <<>>
            /\ OldestAge(pending) < ROUND_TIMEOUT_SECONDS
            /\ ShouldProcessRound(roster[g], pending, FALSE, now))
           => roster[g] \subseteq Actors(pending)

\* C15: an Action row is added only for a game that exists and is ACTIVE and
\* for a participant the admission gate accepts (HP above 0), by either
\* enqueue entry point.
C15_EnqueueOnlyWhenActive ==
    [][Len(actions') > Len(actions) =>
          LET a == actions'[Len(actions')]
          IN /\ a.game_id \in GameIds
             /\ status[a.game_id] = "active"
             /\ Hp(a.player_id) > 0
             /\ ~a.processed]_vars

\* ------------------------------------------------- properties: validation

StatCall == probe.fn = "validate_stat_allocation"
HpCall == probe.fn = "validate_hp_change"

\* The point-buy cost of a value within the stat limits: one point a step up
\* to 13, two a step above.
PointCost(v) == IF v <= 13 THEN v - 8 ELSE 5 + 2 * (v - 13)

\* The cost of a full allocation.
TotalCost(stats) ==
    PointCost(stats["STR"]) + PointCost(stats["DEX"]) + PointCost(stats["CON"])
        + PointCost(stats["INT"]) + PointCost(stats["WIS"]) + PointCost(stats["CHA"])

\* C16: validate_stat_allocation accepts {STR:15, DEX:12, CON:14, INT:10,
\* WIS:13, CHA:13} and rejects the allocation of all 18.
C16_ExampleAllocations ==
    StatCall =>
        /\ probe.stats = ValidStats => probe.result.ok
        /\ probe.stats = AllEighteen => ~probe.result.ok

\* C17: validate_stat_allocation accepts a stat map exactly when all six
\* stats are present, every value lies in [STAT_MIN, STAT_MAX] = [8, 15] and
\* the point costs sum to at most STAT_POINT_BUY_MAX = 27; a rejection for a
\* missing stat names a stat that is missing, one for a value out of range
\* names a stat whose value is above STAT_MAX or below STAT_MIN.
C17_StatAllocation ==
    StatCall =>
        LET stats == probe.stats
            res == probe.result
            complete == DOMAIN stats = Range(RequiredStats)
            inRange == \A k \in DOMAIN stats : stats[k] \in 8..15
        IN /\ res.ok <=> (complete /\ inRange /\ TotalCost(stats) <= 27)
           /\ ~complete => res.error = "missing" /\ res.stat \notin DOMAIN stats
           /\ (complete /\ ~inRange) =>
                 /\ res.error \in {"exceeds_maximum", "below_minimum"}
                 /\ res.stat \in DOMAIN stats
                 /\ res.error = "exceeds_maximum" => stats[res.stat] > 15
                 /\ res.error = "below_minimum" => stats[res.stat] < 8
           /\ res.error = "missing" => res.stat \in Range(RequiredStats)

\* An allocation that spends the whole budget was accepted.
C17_Witness ==
    /\ StatCall /\ probe.result.ok
    /\ TotalCost(probe.stats) = STAT_POINT_BUY_MAX

\* C18: with change positive for healing and negative for damage,
\* validate_hp_change accepts a healing exactly when hp + change is at most
\* max_hp and a damage exactly when hp + change is not below -CON.
C18_HpChange ==
    HpCall =>
        /\ (probe.is_healing /\ probe.change >= 0) =>
              (probe.result.ok <=> probe.hp + probe.change <= probe.max_hp)
        /\ (~probe.is_healing /\ probe.change <= 0) =>
              (probe.result.ok <=> probe.hp + probe.change >= 0 - probe.con)

\* ---------------------------------------------------- properties: sweeper

\* A sweep has begun: games are being visited, the listing failed, or there
\* was no game to visit.
SweepBegun == spc \in {"sweep", "cooldown"} \/ last.why = "sweep_empty"

C20_SweepVisitsAll ==
    [][/\ (spc = "sleep" /\ spc' = "sweep") =>
            /\ SeqRange(squeue') = {g \in GameIds : status[g] = "active"}
            /\ Len(squeue') = Cardinality(SeqRange(squeue'))
       /\ (spc = "sweep" /\ squeue' # squeue /\ spc' # "stopped") =>
            /\ last'.call = "sweeper" /\ last'.game = Head(squeue)
            /\ squeue' = Tail(squeue)
       /\ (last'.call = "sweeper" /\ pc["sweeper"] = "idle"
              /\ last'.why \in {"await", "committed"}) =>
            /\ last'.snap.action_ids # <<>>
            /\ ShouldProcessRound(roster[last'.game], PendingActions(last'.game),
                                  FALSE, now)
       /\ (last'.call = "sweeper" /\ last'.why = "error") =>
            /\ squeue' = Tail(squeue)
            /\ Tail(squeue) # <<>> => spc' = "sweep"
       /\ (spc = "sweep" /\ spc' = "sleep") => squeue' = <<>>]_vars

\* The round of game 1 failed at its session write, and the same sweep went
\* on to commit the round of game 2.
C20_Witness ==
    /\ 2 \in GameIds
    /\ last.call = "sweeper" /\ last.game = 2 /\ last.why = "committed"
    /\ \E a \in ActionIds : actions[a].game_id = 1 /\ actions[a].processed
    /\ session[1].round_number = 1

\* ------------------------------------------------ properties: game status

\* The status changes of the state machine with WAITING as the state a game
\* is created in; "none" is the row not yet there.
WaitingTransitions ==
    {<<"none", "waiting">>, <<"waiting", "active">>, <<"active", "paused">>,
     <<"paused", "active">>, <<"active", "ended">>, <<"paused", "ended">>}

\* The status changes with the game created by the start command as ACTIVE.
StartTransitions ==
    {<<"none", "active">>, <<"active", "paused">>, <<"paused", "active">>,
     <<"active", "ended">>, <<"paused", "ended">>}

\* C21: every change of a game's status is WAITING->ACTIVE (start),
\* ACTIVE->PAUSED (pause), PAUSED->ACTIVE (resume), ACTIVE->ENDED or
\* PAUSED->ENDED (end); a game is created in WAITING and becomes ACTIVE on
\* start; the status of an ENDED game is never changed.
C21_StatusTransitions ==
    [][\A g \in GameIds :
          status'[g] # status[g] => <<status[g], status'[g]>> \in WaitingTransitions]_vars

\* C21 as the code has it: the start command creates the game as ACTIVE and
\* no game is ever WAITING; every later change of its status is
\* ACTIVE->PAUSED, PAUSED->ACTIVE, ACTIVE->ENDED or PAUSED->ENDED, and the
\* status of an ENDED game is never changed.
C21_StatusTransitionsFromStart ==
    /\ [][\A g \in GameIds :
            status'[g] # status[g] => <<status[g], status'[g]>> \in StartTransitions]_vars
    /\ [](\A g \in GameIds : status[g] # "waiting")

\* The game was started, a round of it was committed, and the DM ended it.
C21_Witness ==
    \E g \in GameIds :
        /\ status[g] = "ended"
        /\ session[g].round_number > 1
        /\ Last(logs[g]) = SystemLog("Game ended by DM.")

\* C22: once a game is ENDED no step changes its status, its session's
\* round_number and current_turn, or the processed flag of one of its
\* actions, not even the commit of a resolution that was suspended in the
\* narrator call when the game was ended.
C22_EndedFrozen ==
    [][\A g \in GameIds :
          status[g] = "ended" =>
              /\ status'[g] = "ended"
              /\ session'[g] = session[g]
              /\ \A a \in ActionIds :
                    actions[a].game_id = g =>
                        actions'[a].processed = actions[a].processed]_vars

\* C23: every channel has at most one game that is WAITING, ACTIVE or
\* PAUSED: the start command creates a game only in a channel without one,
\* and pause and resume change the status of a game that is non-terminal
\* already.
C23_OneGamePerChannel ==
    \A ch \in Channels : Cardinality(GamesIn(ch, NonTerminal)) <= 1

\* A second game was started in a channel after its first game had ended, and
\* a player has acted in it.
C23_Witness ==
    \E ch \in Channels :
        /\ GamesIn(ch, {"ended"}) # {}
        /\ \E g \in GamesIn(ch, {"active"}) : roster[g] # {}

\* ------------------------------------------------ properties: the session

\* The step is a state query for game g that returned: get_game_state itself,
\* or a process_round that got past its busy test and read the store.
Queried(g) ==
    /\ last'.game = g
    /\ \/ last'.call = "get_game_state"
       \/ /\ last'.call \in Calls
          /\ last'.why # "busy"
          /\ ~(last'.why = "error" /\ last'.fail = "load")

\* C24: after a state query for an existing game the game has its session; a
\* session created by the query has round_number 1 and no current_turn (a
\* round resolved by the same process_round call has advanced it to 2); a
\* session that exists is changed by no step but the commit of a round, and
\* no session is created for a game that does not exist.
C24_SessionAfterQuery ==
    [][\A g \in GameIds :
          /\ (Queried(g) /\ status[g] # "none") => session'[g].exists
          /\ (~session[g].exists /\ session'[g].exists) =>
                /\ Queried(g)
                /\ session'[g].current_turn = 0
                /\ session'[g].round_number \in {1, 2}
                /\ session'[g].round_number = 2 =>
                      /\ last'.why \in {"committed", "error"}
                      /\ last'.snap.round_number = 1
          /\ (session[g].exists /\ session'[g] # session[g]) =>
                /\ last'.game = g /\ last'.why \in {"committed", "error"}
                /\ session'[g].round_number = session[g].round_number + 1
          /\ status[g] = "none" => session'[g] = NoSession]_vars

\* get_game_state was called for a game without a session, and the game has
\* the session the query created.
C24_Witness ==
    /\ last.call = "get_game_state" /\ last.why = "created"
    /\ session[last.game] = [exists |-> TRUE, round_number |-> 1, current_turn |-> 0]
    /\ last.snap.round_number = 1

\* ---------------------------------------------- properties: independence

\* C25: resolutions of different games do not interfere: a process_round
\* call is reported busy only when a resolution of its own game is in
\* flight, never because of one of another game, and a process_round step
\* for one game changes no action, session, log or token of another.
C25_GamesIndependent ==
    [][/\ (last'.call \in Calls /\ last'.why = "busy") =>
            \E c \in Calls : pc[c] = "await" /\ cgame[c] = last'.game
       /\ \A g \in GameIds :
            (last'.call \in Calls /\ last'.game # g) =>
                /\ session'[g] = session[g]
                /\ logs'[g] = logs[g]
                /\ \A a \in ActionIds :
                      actions[a].game_id = g => actions'[a] = actions[a]
                /\ g \in active_rounds' <=> g \in active_rounds]_vars

\* While the manual call for game 1 was suspended in its narrator call, the
\* sweeper acquired the token of game 2 and committed its round.
C25_Witness ==
    /\ pc["manual"] = "await" /\ cgame["manual"] = 1
    /\ 1 \in active_rounds
    /\ last.call = "sweeper" /\ last.game = 2 /\ last.why = "committed"
    /\ session[2].round_number = 2 /\ session[1].round_number = 1

\* ------------------------------------------- properties: fallback narrative

\* The narrator failed in the round just committed: its callback raised, or
\* its client met a timeout, a connection failure or a non-200 answer.
NarrationFailed ==
    last.why = "committed" /\ last.narr \in {"raise", "client_fallback"}

\* Each pair as "<participant name> <action text>".
NamedPairs(pa) ==
    [i \in 1..Len(pa) |-> pa[i].player_name \o " " \o pa[i].action_text]

\* C26: the fallback narrative of a round whose narration failed is a fixed
\* opening, the pairs "<participant name> <action text>" in pending order
\* joined with commas, and a fixed closing: it names the participant of
\* every action.
C26_FallbackNamesParticipants ==
    NarrationFailed =>
        LET text == last.ret.text
        IN /\ Len(text) >= 2
           /\ SubSeq(text, 2, Len(text) - 1)
                 = JoinComma(NamedPairs(last.snap.player_actions))

\* C27: the fallback narrative depends on the pair list alone: it is the
\* same text whether the callback raised or the client met its timeout or a
\* connection failure, and for the pair list [("Thorne", "attacks")] it is
\* the template around "The actions unfold: attacks".
C27_FallbackDeterministic ==
    NarrationFailed =>
        LET pa == last.snap.player_actions
        IN /\ last.ret = Narrative("raise", pa)
           /\ last.ret = Narrative("client_fallback", pa)
           /\ pa = <<[player_name |-> "Thorne", action_text |-> "attacks"]>> =>
                 last.ret.text = <<"*The actions unfold: ", "attacks", "*">>

\* ------------------------------------ properties: hanging and cancellation

\* C28: a process_round call that holds the token returns and releases it
\* even if the narrator never answers: the call suspended in the narrator
\* call comes back, the token of each game is free again, and the call
\* whose narrator hung ends by the timeout of the request, on the fallback
\* path, with the token released.
C28_HangingNarratorReleases ==
    /\ (pc["sweeper"] \in {"await", "hung"}) ~> (pc["sweeper"] = "idle")
    /\ \A g \in TwoGames : (g \in active_rounds) ~> (g \notin active_rounds)
    /\ [][(pc["sweeper"] = "hung" /\ pc'["sweeper"] # "hung") =>
            /\ last'.narr = "timeout"
            /\ last'.why \in {"committed", "error"}
            /\ last'.why = "committed" =>
                  last'.ret = Str(ClientFallback(csnap["sweeper"].player_actions))
            /\ cgame["sweeper"] \notin active_rounds'
            /\ pc'["sweeper"] = "idle"]_vars

\* The narrator never answered, the request timed out and the round was
\* committed with the client's fallback text; no token is held.
C28_Witness ==
    /\ last.narr = "timeout" /\ last.why = "committed"
    /\ Truthy(last.ret)
    /\ active_rounds = {}
    /\ Processed(last.snap.action_ids)

\* The sweeper task was cancelled in the step to this state.
Cancelled(ev) == ev.why = "cancelled" \/ ev.narr = "cancelled"

\* C29: the cancellation of the sweeper task, during the interval sleep,
\* during the narrator call of a game or during the cooldown sleep, ends the
\* loop, leaves no token in active_rounds and writes nothing to the store (no
\* action marked, no round number advanced, no log row); a loop that has
\* ended stays ended and calls process_round no more.
C29_CancelStopsCleanly ==
    [][/\ Cancelled(last') =>
            /\ last'.why = "cancelled"
            /\ spc # "stopped" /\ spc' = "stopped"
            /\ active_rounds' = {}
            /\ pc'["sweeper"] = "idle"
            /\ UNCHANGED store
       /\ spc = "stopped" =>
            /\ spc' = "stopped"
            /\ last'.call # "sweeper"
            /\ UNCHANGED <<actions, session, logs, active_rounds>>]_vars

\* The task was cancelled during the narrator call of game 2, after the round
\* of game 1 had been committed in the same sweep: game 2's action is still
\* pending, its round number is the old one and no token is held.
C29_Witness ==
    /\ spc = "stopped" /\ last.narr = "cancelled" /\ last.game = 2
    /\ active_rounds = {}
    /\ session[1].round_number = 2 /\ session[2].round_number = 1
    /\ \E a \in ActionIds : actions[a].game_id = 2 /\ ~actions[a].processed

\* ------------------------------------------------- properties: early exits

\* C30: a process_round that finds the game missing or not ACTIVE, or that
\* the scheduler declines (nothing pending, or no quorum and no timeout),
\* returns None and leaves every action, the session and the log as they
\* were; no call is suspended in the narrator by it and the token is free
\* again.  A call that is not busy and finds the game missing or not ACTIVE
\* takes that exit.
C30_EarlyExitsChangeNothing ==
    [][/\ (last'.call \in Calls
              /\ last'.why \in {"not_active", "no_pending", "declined"}) =>
            /\ last'.ret = None
            /\ UNCHANGED <<status, channel, session, roster, actions, logs,
                           markCount, callv, active_rounds>>
            /\ last'.why = "not_active" <=> status[last'.game] # "active"
            /\ last'.why = "no_pending" => PendingActions(last'.game) = <<>>
            /\ last'.why = "declined" =>
                  ~ShouldProcessRound(roster[last'.game],
                                      PendingActions(last'.game), FALSE, now)
       /\ (last'.call \in Calls /\ pc[last'.call] = "idle"
              /\ status[last'.game] # "active") =>
            \/ last'.why \in {"busy", "not_active"}
            \/ last'.why = "error" /\ last'.fail = "load"]_vars

\* The scheduler declined a round although an action is pending: one of two
\* participants has acted and the timeout has not passed.
C30_Witness ==
    /\ last.call \in Calls /\ last.why = "declined"
    /\ PendingActions(last.game) # <<>>
    /\ status[last.game] = "active"

\* C34: a round that is not forced is processed only when its pending
\* actions come from at least MIN_PLAYERS_FOR_ROUND distinct players; with
\* the minimum at 2, pending actions of one player alone never resolve.
C34_MinimumCountsPlayers ==
    (last.call = "sweeper" /\ last.why \in {"committed", "error"}
        /\ last.snap.pending # <<>>)
      => Cardinality(Actors(last.snap.pending)) >= min_players

\* C37: every increment of a session's round_number comes with at least one
\* action of that game becoming processed in the same commit: no round is
\* counted for an empty batch.
C37_NoEmptyRound ==
    [][\A g \in GameIds :
          (session[g].exists
              /\ session'[g].round_number = session[g].round_number + 1)
            => \E a \in ActionIds :
                  /\ actions[a].game_id = g
                  /\ ~actions[a].processed
                  /\ actions'[a].processed]_vars

\* C36: an action stored for a game while a resolution of the game is
\* suspended at the narrator, after its snapshot was taken, is not marked
\* processed by that resolution's commit and is not lost: it is unchanged
\* and among the pending actions the next snapshot of the game holds.
C36_LateActionKept ==
    [][\A g \in GameIds :
          (last'.why \in {"committed", "error"} /\ last'.narr # "none"
              /\ last'.game = g) =>
            \A a \in ActionIds :
                (/\ actions[a].game_id = g
                 /\ ~actions[a].processed
                 /\ a \notin SeqRange(last'.snap.action_ids))
                  => /\ a \in DOMAIN actions'
                     /\ actions'[a] = actions[a]
                     /\ a \in SeqRange(GetGameState(g).pending_actions)']_vars

\* A round was committed after its narrator call while an action that
\* arrived during the call is still pending.
C36_Witness ==
    /\ last.why = "committed" /\ last.narr # "none"
    /\ last.snap.action_ids # <<>>
    /\ Processed(last.snap.action_ids)
    /\ \E a \in ActionIds :
          /\ actions[a].game_id = last.game
          /\ a \notin SeqRange(last.snap.action_ids)
          /\ ~actions[a].processed
          /\ a \in SeqRange(PendingActions(last.game))

\* ------------------------------------------------ commands that are rejected
\* One game, running or paused, with nobody in it yet.  Players and a user
\* without a character send /action with and without a description, rounds
\* are attempted by the sweeper and by a manual caller, and time passes by
\* a round timeout.

GateInit ==
    /\ status \in [OneGame -> {"active", "paused"}]
    /\ channel = [g \in OneGame |-> ChannelOf(g)]
    /\ session = [g \in OneGame |->
                    [exists |-> TRUE, round_number |-> 1, current_turn |-> 0]]
    /\ roster = [g \in OneGame |-> {}]
    /\ actions = <<>>
    /\ logs = [g \in OneGame |-> <<SystemLog("Game started by DM"), OpeningLog>>]
    /\ active_rounds = {}
    /\ ai_callback = FALSE
    /\ now = 0
    /\ pc = [c \in Calls |-> "idle"]
    /\ cgame = [c \in Calls |-> 0]
    /\ csnap = [c \in Calls |-> NoSnap]
    /\ spc = "sleep"
    /\ squeue = <<>>
    /\ last = NoEvent
    /\ markCount = <<>>
    /\ min_players = MIN_PLAYERS_FOR_ROUND
    /\ probe = NoProbe

GateNext ==
    \/ SweepStart
    \/ SweeperCalls
    \/ ManualCalls
    \/ \E p \in Players, ch \in Channels, text \in ActionTexts : HandleAction(p, ch, text)
    \/ \E p \in Players \cup {NoCharacter}, ch \in Channels, text \in Descriptions :
          HandleActionRejected(p, ch, text)
    \/ Tick

GateSpec == GateInit /\ [][GateNext]_vars

\* C39: an /action command that handle_action rejects (no character, no
\* ACTIVE game in the channel, empty description, or the admission gate)
\* leaves the store as it was: no action is added and no roster is extended,
\* so what later queries and commits of the database session see, and with
\* it every later quorum decision, is the same as without the command.
C39_RejectedChangesNothing ==
    [][last'.call = "handle_action" => UNCHANGED <<store, markCount>>]_vars

\* C35: quorum is counted against the roster as it is when the scheduler is
\* called.  A call that is not forced, for an ACTIVE game with pending
\* actions and MIN_PLAYERS_FOR_ROUND met, is declined exactly when the
\* pending actions come from fewer players than the roster now has and the
\* oldest of them is younger than the round timeout: after a participant has
\* joined, a pending set that covered the roster before resolves by timeout
\* or force only, until the new participant acts.
C35_QuorumUsesCurrentRoster ==
    [][\A g \in GameIds :
          (/\ last'.call = "sweeper" /\ last'.game = g
           /\ pc["sweeper"] = "idle"
           /\ last'.why \in {"declined", "committed", "error"}
           /\ last'.fail # "load")
            => LET pending == PendingActions(g)
               IN /\ status[g] = "active"
                  /\ pending # <<>>
                  /\ last'.why = "declined"
                        <=> /\ Cardinality(Actors(pending)) < Cardinality(roster[g])
                            /\ OldestAge(pending) < ROUND_TIMEOUT_SECONDS]_vars

\* The sweeper's call was declined for a roster member who joined after the
\* pending actions were stored and has not acted; the others all have.
C35_Witness ==
    /\ last.call = "sweeper" /\ last.why = "declined"
    /\ \E g \in GameIds, p \in Players :
          /\ last.game = g
          /\ p \in roster[g]
          /\ \A a \in ActionIds : actions[a].player_id # p
          /\ roster[g] \ {p} # {}
          /\ roster[g] \ {p} = Actors(PendingActions(g))

\* ------------------------------------------------ both enqueue entry points
\* One running game.  Actions arrive through handle_action and through
\* queue_action, which takes any player id, that of a user without a Player
\* row included; the sweeper resolves rounds, with and without a narrator.

EnqueueInit ==
    /\ status = [g \in OneGame |-> "active"]
    /\ channel = [g \in OneGame |-> ChannelOf(g)]
    /\ session = [g \in OneGame |->
                    [exists |-> TRUE, round_number |-> 1, current_turn |-> 0]]
    /\ roster = [g \in OneGame |-> {}]
    /\ actions = <<>>
    /\ logs = [g \in OneGame |-> <<SystemLog("Game started by DM"), OpeningLog>>]
    /\ active_rounds = {}
    /\ ai_callback \in BOOLEAN
    /\ now = 0
    /\ pc = [c \in Calls |-> "idle"]
    /\ cgame = [c \in Calls |-> 0]
    /\ csnap = [c \in Calls |-> NoSnap]
    /\ spc = "sleep"
    /\ squeue = <<>>
    /\ last = NoEvent
    /\ markCount = <<>>
    /\ min_players = MIN_PLAYERS_FOR_ROUND
    /\ probe = NoProbe

EnqueueNext ==
    \/ SweepStart
    \/ SweeperCalls
    \/ NarratorReturns("sweeper")
    \/ \E p \in Players, ch \in Channels, text \in ActionTexts : HandleAction(p, ch, text)
    \/ \E g \in GameIds, p \in Players \cup {NoCharacter}, text \in ActionTexts :
          QueueAction(g, p, text)
    \/ Tick

EnqueueSpec == EnqueueInit /\ [][EnqueueNext]_vars

\* C31: every pending action in the snapshot of a committed round is in the
\* pair list passed to the narrator and is marked processed by that commit,
\* whether or not its participant is in the snapshot's roster: none is
\* dropped and left pending once the round it was read in is committed.
C31_SnapshotFullyResolved ==
    last.why = "committed" =>
        /\ Len(last.snap.player_actions) = Len(last.snap.pending)
        /\ last.snap.action_ids = last.snap.pending
        /\ \A a \in SeqRange(last.snap.pending) : actions[a].processed

\* The pairs of the snapshot are its pending actions, one each and in the
\* same order, and these are in ascending order of their timestamps.
InTimeOrder(snap) ==
    /\ Len(snap.player_actions) = Len(snap.pending)
    /\ \A i \in 1..Len(snap.pending) :
          /\ snap.player_actions[i].player_name
                = PlayerName(actions[snap.pending[i]].player_id)
          /\ snap.player_actions[i].action_text
                = actions[snap.pending[i]].action_text
    /\ \A i, j \in 1..Len(snap.pending) :
          i < j => /\ snap.pending[i] # snap.pending[j]
                   /\ actions[snap.pending[i]].timestamp
                        <= actions[snap.pending[j]].timestamp

\* C33: the (participant name, action text) list handed to the narrator and
\* used for the fallback lists the snapshot's pending actions in ascending
\* order of creation time, one entry per action, in whatever order the
\* participants enqueued them.
C33_PairListInTimeOrder ==
    /\ \A c \in Calls : pc[c] = "await" => InTimeOrder(csnap[c])
    /\ last.why \in {"await", "committed", "error"} => InTimeOrder(last.snap)
    /\ (last.why = "committed" /\ last.snap.pending # <<>>
            /\ (last.narr = "raise" \/ ~ai_callback))
          => last.ret = Str(UnfoldFallback(last.snap.player_actions))

\* The narrator is called with the actions of two participants, stored a
\* round timeout apart.
C33_Witness ==
    /\ last.why = "await"
    /\ Len(last.snap.pending) = 2
    /\ actions[last.snap.pending[1]].timestamp < actions[last.snap.pending[2]].timestamp
    /\ actions[last.snap.pending[1]].player_id # actions[last.snap.pending[2]].player_id

\* The rows of a game's log that rounds have written, in log order.
RoundEntries(g) ==
    SelectSeq(logs[g], LAMBDA e : e.type = "narrative" /\ e.round > 0)

\* C32: a committed round that produced a narrative appends exactly one log
\* row of kind narrative, with the number of the round resolved and the text
\* returned, and a committed round without narrative appends none; the rows
\* that rounds wrote to a game's log carry strictly increasing round numbers.
C32_OneLogRowPerRound ==
    /\ [][\A g \in GameIds :
            (last'.why = "committed" /\ last'.game = g) =>
                logs'[g] = IF Truthy(last'.ret)
                           THEN Append(logs[g],
                                       [type |-> "narrative",
                                        round |-> last'.snap.round_number,
                                        text |-> last'.ret.text])
                           ELSE logs[g]]_vars
    /\ [](\A g \in GameIds :
            \A i, j \in 1..Len(RoundEntries(g)) :
                i < j => RoundEntries(g)[i].round < RoundEntries(g)[j].round)

\* The second round of the game was committed with a narrative and the log
\* holds the rows of rounds 1 and 2.
C32_Witness ==
    /\ last.why = "committed" /\ Truthy(last.ret)
    /\ last.snap.round_number = 2
    /\ Len(RoundEntries(last.game)) = 2
    /\ RoundEntries(last.game)[1].round = 1
    /\ RoundEntries(last.game)[2].round = 2

\* ------------------------------------------------------- rounds are retried
\* One running game whose actions arrive, through either entry point, before
\* the first round timeout has passed; the sweeper and a caller that does not
\* force attempt rounds, the list of games and the store writes may fail, and
\* the clock passes the timeout.

LiveInit == EnqueueInit

\* A caller other than the sweeper that does not force the round.
ManualUnforced ==
    /\ \E g \in GameIds : ProcessRound("manual", g, FALSE)
    /\ UNCHANGED <<spc, squeue>>

ActionArrives ==
    /\ now = 0
    /\ \E p \in Players, ch \in Channels, text \in ActionTexts : HandleAction(p, ch, text)

QueueArrives ==
    /\ now = 0
    /\ \E g \in GameIds, p \in Players \cup {NoCharacter}, text \in ActionTexts :
          QueueAction(g, p, text)

LiveNext ==
    \/ SweepStart
    \/ SweepListFails
    \/ CooldownEnds
    \/ SweeperCalls
    \/ ManualUnforced
    \/ \E c \in Calls : NarratorReturns(c)
    \/ ActionArrives
    \/ QueueArrives
    \/ Tick

\* The step ends without a failure of the store.
Succeeds == last'.why # "error"

\* asyncio.sleep returns after its delay (engine.py:234, 238) and the loop
\* goes on; the narrator call ends, generate_story giving up after 60
\* seconds; time passes; and the store does not fail for ever: a read or a
\* write that could succeed again and again does succeed at some time.
LiveSpec ==
    /\ LiveInit /\ [][LiveNext]_vars
    /\ SF_vars(SweepStart)
    /\ WF_vars(CooldownEnds)
    /\ SF_vars(SweeperCalls /\ Succeeds)
    /\ \A c \in Calls : SF_vars(NarratorReturns(c) /\ Succeeds)
    /\ WF_vars(Tick)

\* C38: with sweeps that recur for ever, a narrator that returns or fails in
\* bounded time and MIN_PLAYERS_FOR_ROUND = 1, every pending action of a game
\* that stays ACTIVE is eventually marked processed: a round skipped as busy,
\* for want of quorum or by a failed attempt is retried by a later sweep, and
\* once the oldest action's timeout has passed a sweep that is neither busy
\* nor failing is not declined and its commit leaves none of the actions it
\* read pending.
C38_PendingEventuallyProcessed ==
    /\ \A a \in 1..MaxActions :
          (a \in ActionIds /\ ~actions[a].processed)
              ~> (a \in ActionIds /\ actions[a].processed)
    /\ [][\A g \in GameIds :
            (last'.call = "sweeper" /\ last'.game = g) =>
                /\ (/\ pc["sweeper"] = "idle"
                    /\ status[g] = "active"
                    /\ PendingActions(g) # <<>>
                    /\ OldestAge(PendingActions(g)) >= ROUND_TIMEOUT_SECONDS)
                      => last'.why \in {"busy", "error", "await", "committed"}
                /\ last'.why = "committed" =>
                      \A a \in SeqRange(last'.snap.pending) :
                          actions'[a].processed]_vars

====
